---- MODULE Spec2Model ----
(***************************************************************************)
(* Model of crypto_analysis.py: the fetch -> build -> summarise -> publish *)
(* pipeline and the refresh loop of main().                                *)
(*                                                                         *)
(* Python / JSON scalars are modelled as tagged values so that strings,    *)
(* numbers and null can share a column or a worksheet cell.  Prices are    *)
(* integers; a mean is kept as the exact fraction sum/count.               *)
(***************************************************************************)
EXTENDS Integers, Sequences, FiniteSets, TLC

(* ------------------------------ bounds -------------------------------- *)
\* longest record sequence given to the pure functions
MaxLen == 6
\* longest record sequence one fetch of the loop returns
MaxRows == 2
\* number of pauses after which the loop is no longer explored
MaxCycles == 2

(* ------------------------- program constants -------------------------- *)
update_interval == 300
HeadRows == 5

RequiredKeys ==
  <<"name", "symbol", "current_price", "market_cap", "total_volume",
    "price_change_percentage_24h">>

Labels ==
  <<"Name", "Symbol", "Price (USD)", "Market Cap", "24h Volume",
    "24h Change %">>

(* --------------------------- scalar values ---------------------------- *)
\* k: kind, s: text, n/d: number (a fraction n/d for a computed mean)
Str(s) == [k |-> "str", s |-> s, n |-> 0, d |-> 1]
Num(n) == [k |-> "num", s |-> "", n |-> n, d |-> 1]
Null == [k |-> "null", s |-> "", n |-> 0, d |-> 1]

IsNull(x) == x.k = "null"

Range(s) == {s[i] : i \in 1..Len(s)}

Min(a, b) == IF a <= b THEN a ELSE b

(* ---------------------------- raw records ----------------------------- *)
\* One element of the provider's JSON array: the six keys the program reads
\* and the keys it ignores ("id", and for some assets "image").
Rec(nm, price, cap, chg) ==
  [name |-> Str(nm), symbol |-> Str(nm), current_price |-> Num(price),
   market_cap |-> Num(cap), total_volume |-> Num(cap),
   price_change_percentage_24h |-> chg, id |-> Str(nm)]

RecImg(nm, price, cap, chg) ==
  [name |-> Str(nm), symbol |-> Str(nm), current_price |-> Num(price),
   market_cap |-> Num(cap), total_volume |-> Num(cap),
   price_change_percentage_24h |-> chg, id |-> Str(nm), image |-> Str("png")]

\* the records the pure functions are tried on: a tie on the largest change
\* (btc, eth), a smaller change, and a null change
PureRecords ==
  {Rec("btc", 3, 9, Num(1)), RecImg("eth", 2, 8, Num(1)),
   Rec("xrp", 1, 7, Num(0 - 1)), Rec("new", 1, 1, Null)}

\* the records a fetch of the loop returns
LoopRecords ==
  {Rec("btc", 3, 9, Num(1)), RecImg("eth", 2, 8, Num(0 - 1)), Rec("new", 1, 1, Null)}

SeqsUpTo(S, n) == UNION {[1..m -> S] : m \in 0..n}

(* --------------------------- Python objects --------------------------- *)
\* what main's local `data` can hold
None == [t |-> "None", v |-> <<>>]
List(recs) == [t |-> "list", v |-> recs]
\* a non-empty JSON object, e.g. {"error": "..."}: not an array of records
JsonObject == [t |-> "dict", v |-> <<>>]

\* `if True:` -- the guard dropped
TruthyAlways(x) == x.t \in {"None", "list", "dict"}

\* `if data is not None:` -- the guard tests for the failure indicator only
TruthyNotNone(x) == x.t # "None"

\* `if data:`
Truthy(x) ==
  \/ x.t = "list" /\ Len(x.v) > 0
  \/ x.t = "dict"

(* ------------------------------ tables -------------------------------- *)
\* a DataFrame: column labels in order, one dtype per column, rows carrying
\* their index label
NoTable == [columns |-> <<>>, dtypes |-> <<>>, rows |-> <<>>]

ColIndex(df, label) == CHOOSE j \in 1..Len(df.columns) : df.columns[j] = label

\* pandas' inferred dtype of a column built from JSON values
Dtype(vals) ==
  IF \E i \in 1..Len(vals) : vals[i].k = "num" THEN "float64" ELSE "object"

\* columns of pd.DataFrame(list of dicts): the union of the records' keys
FrameColumns(recs) == UNION {DOMAIN recs[i] : i \in 1..Len(recs)}

process_crypto_data(data) ==
  IF data.t = "list" /\ Range(RequiredKeys) \subseteq FrameColumns(data.v)
  THEN [exc |-> "",
        value |->
          [columns |-> [j \in 1..Len(RequiredKeys) |-> Labels[j]],
           dtypes |-> [j \in 1..Len(RequiredKeys) |->
                         Dtype([i \in 1..Len(data.v) |->
                                  data.v[i][RequiredKeys[j]]])],
           rows |-> [i \in 1..Len(data.v) |->
                       [idx |-> i - 1,
                        vals |-> [j \in 1..Len(RequiredKeys) |->
                                    data.v[i][RequiredKeys[j]]]]]]]
  ELSE [exc |-> IF data.t = "dict" THEN "ValueError" ELSE "KeyError",
        value |-> NoTable]

(* ----------------------------- Summarizer ----------------------------- *)
WithRows(df, rows) == [columns |-> df.columns, dtypes |-> df.dtypes, rows |-> rows]

\* df.tail(): the last five rows
tail(df) ==
  WithRows(df, SubSeq(df.rows, Len(df.rows) - Min(HeadRows, Len(df.rows)) + 1,
                      Len(df.rows)))

\* df.head(): the first five rows, or all of them when there are fewer
head(df) == WithRows(df, SubSeq(df.rows, 1, Min(HeadRows, Len(df.rows))))

RECURSIVE SumNum(_)
SumNum(vals) ==
  IF vals = <<>> THEN 0
  ELSE (IF Head(vals).k = "num" THEN Head(vals).n ELSE 0) + SumNum(Tail(vals))

\* Series.mean(): nulls are skipped; NaN when nothing is left
mean(df, label) ==
  LET j == ColIndex(df, label)
      vals == [i \in 1..Len(df.rows) |-> df.rows[i].vals[j]]
      cnt == Cardinality({i \in 1..Len(vals) : vals[i].k = "num"})
  IN [nan |-> cnt = 0, sum |-> SumNum(vals), count |-> cnt]

\* whether value a is ahead of value b for nlargest (largest) or nsmallest
Better(a, b, largest) == IF largest THEN a > b ELSE a < b

\* position of the row nlargest(1)/nsmallest(1) keeps: nulls are dropped,
\* the extreme of what is left wins, keep='first' among equal values
ExtremeRow(df, j, largest) ==
  LET cand == {i \in 1..Len(df.rows) : ~IsNull(df.rows[i].vals[j])}
  IN CHOOSE i \in cand :
       \A m \in cand \ {i} :
         \/ Better(df.rows[i].vals[j].n, df.rows[m].vals[j].n, largest)
         \/ df.rows[i].vals[j].n = df.rows[m].vals[j].n /\ i < m

\* a column without a number has nothing to rank: the leading row, if any
SelectN(df, label, largest) ==
  LET j == ColIndex(df, label)
  IN IF \A i \in 1..Len(df.rows) : IsNull(df.rows[i].vals[j])
     THEN WithRows(df, SubSeq(df.rows, 1, Min(1, Len(df.rows))))
     ELSE WithRows(df, <<df.rows[ExtremeRow(df, j, largest)]>>)

\* nlargest(1, ..., keep='last'): the last of the rows sharing the maximum
nlargest_last(df, label) ==
  LET j == ColIndex(df, label)
      cand == {i \in 1..Len(df.rows) : ~IsNull(df.rows[i].vals[j])}
  IN IF cand = {}
     THEN WithRows(df, SubSeq(df.rows, 1, Min(1, Len(df.rows))))
     ELSE WithRows(df, <<df.rows[CHOOSE i \in cand : \A m \in cand \ {i} :
                                   \/ df.rows[i].vals[j].n > df.rows[m].vals[j].n
                                   \/ df.rows[i].vals[j].n = df.rows[m].vals[j].n
                                        /\ i > m]>>)

nlargest(df, label) == SelectN(df, label, TRUE)
nsmallest(df, label) == SelectN(df, label, FALSE)

NoAnalysis ==
  [top_5_by_market_cap |-> NoTable,
   average_price |-> [nan |-> TRUE, sum |-> 0, count |-> 0],
   highest_24h_change |-> NoTable,
   lowest_24h_change |-> NoTable]

\* nlargest/nsmallest refuse a column of dtype object with a TypeError
analyze_data(df) ==
  IF df.dtypes[ColIndex(df, "24h Change %")] = "object"
  THEN [exc |-> "TypeError", value |-> NoAnalysis]
  ELSE [exc |-> "",
        value |->
          [top_5_by_market_cap |-> head(df),
           average_price |-> mean(df, "Price (USD)"),
           highest_24h_change |-> nlargest(df, "24h Change %"),
           lowest_24h_change |-> nsmallest(df, "24h Change %")]]

(* ---------------------------- Data Fetcher ---------------------------- *)
\* "order": "market_cap_desc" -- the provider lists each asset once, the
\* larger market capitalisation first
IsMarketCapDesc(recs) ==
  \A i, j \in 1..Len(recs) : i < j => recs[i].market_cap.n > recs[j].market_cap.n

\* what the single requests.get can come back with
NetOutcomes ==
  {[kind |-> k, body |-> None] : k \in {"ConnectionError", "HTTPError", "NotJSON"}}
    \cup {[kind |-> "OK", body |-> b] :
            b \in {JsonObject}
                   \cup {List(r) : r \in {q \in SeqsUpTo(LoopRecords, MaxRows) :
                                             IsMarketCapDesc(q)}}}

\* jsonErrIsRequestException: whether the installed requests raises its own
\* JSONDecodeError (a RequestException, requests >= 2.27) from response.json()
\* or the json module's (a ValueError, which the except clause does not name)
fetch_crypto_data(net, jsonErrIsRequestException) ==
  CASE net.kind \in {"ConnectionError", "HTTPError"} ->
         [exc |-> "", value |-> None, printed |-> "Error fetching data"]
    [] net.kind = "NotJSON" ->
         IF jsonErrIsRequestException
         THEN [exc |-> "", value |-> None, printed |-> "Error fetching data"]
         ELSE [exc |-> "ValueError", value |-> None, printed |-> ""]
    [] OTHER -> [exc |-> "", value |-> net.body, printed |-> ""]

(* ------------------------------ workbook ------------------------------ *)
\* A sheet maps the addresses <<row, column>> of its non-empty cells to
\* their values; every other cell is empty.
EmptySheet == [a \in {} |-> Null]
EmptyBook == [CryptoData |-> EmptySheet, Analysis |-> EmptySheet]

Cell(sheet, r, c) == IF <<r, c>> \in DOMAIN sheet THEN sheet[<<r, c>>] ELSE Null

\* range.value = block: the block's cells replace the sheet's, a null empties
\* its cell, and no cell outside the block is touched
WriteBlock(sheet, block) ==
  LET keep == (DOMAIN sheet \ DOMAIN block)
                \cup {a \in DOMAIN block : ~IsNull(block[a])}
  IN [a \in keep |-> IF a \in DOMAIN block THEN block[a] ELSE sheet[a]]

\* the cells xlwings writes for a scalar at <<r, c>>
ScalarBlock(r, c, v) == [a \in {<<r, c>>} |-> v]

\* the cells xlwings writes for a DataFrame anchored at <<r, c>>: a header
\* row (empty index name, then the labels) and one row per table row (index
\* label, then the values)
FrameBlock(r, c, df) ==
  [a \in {<<r + i, c + j>> : i \in 0..Len(df.rows), j \in 0..Len(df.columns)} |->
     LET i == a[1] - r
         j == a[2] - c
     IN IF i = 0 THEN (IF j = 0 THEN Null ELSE Str(df.columns[j]))
        ELSE IF j = 0 THEN Num(df.rows[i].idx)
        ELSE df.rows[i].vals[j]]

\* strftime('%Y-%m-%d %H:%M:%S') of the clock, after a fixed prefix
Stamp(prefix, t) == [k |-> "time", s |-> prefix, n |-> t, d |-> 1]

\* a float written to a cell: the fraction, or an empty cell for NaN
MeanCell(m) ==
  IF m.nan THEN Null ELSE [k |-> "num", s |-> "", n |-> m.sum, d |-> m.count]

\* the assignments of update_excel between opening the book and saving it,
\* in program order
ExcelWrites(df, analysis, t) ==
  << [sheet |-> "CryptoData", block |-> FrameBlock(1, 1, df)],
     [sheet |-> "Analysis", block |-> ScalarBlock(1, 1, Str("Top 5 by Market Cap"))],
     [sheet |-> "Analysis", block |-> FrameBlock(2, 1, analysis.top_5_by_market_cap)],
     [sheet |-> "Analysis", block |-> ScalarBlock(8, 1, Str("Average Price (USD)"))],
     [sheet |-> "Analysis", block |-> ScalarBlock(8, 2, MeanCell(analysis.average_price))],
     [sheet |-> "Analysis", block |-> ScalarBlock(10, 1, Str("Highest 24h Change"))],
     [sheet |-> "Analysis", block |-> FrameBlock(11, 1, analysis.highest_24h_change)],
     [sheet |-> "Analysis", block |-> ScalarBlock(13, 1, Str("Lowest 24h Change"))],
     [sheet |-> "Analysis", block |-> FrameBlock(14, 1, analysis.lowest_24h_change)],
     [sheet |-> "CryptoData", block |-> ScalarBlock(1, 9, Stamp("Last Updated: ", t))] >>

RECURSIVE ApplyWrites(_, _, _)
ApplyWrites(wb, writes, n) ==
  IF n = 0 THEN wb
  ELSE LET before == ApplyWrites(wb, writes, n - 1)
           w == writes[n]
       IN [before EXCEPT ![w.sheet] = WriteBlock(@, w.block)]

\* Any statement of update_excel can fail in the spreadsheet application.
\* The places a fault is tried at: opening the book or finding the first
\* sheet (0 assignments done), after the data sheet (1), inside the analysis
\* sheet (3), at wb.save() (all done), and no fault (all done and saved).
ExcelOutcomes(df, analysis, t) ==
  LET n == Len(ExcelWrites(df, analysis, t)) IN {0, 1, 3, n, n + 1}

\* update_excel with a fault raised after `done` of its assignments
\* (done = Len(writes) + 1: wb.save() returned, no fault).  Every fault is
\* caught and printed; the open book keeps the assignments already made.
update_excel(wb, disk, df, analysis, t, done) ==
  LET writes == ExcelWrites(df, analysis, t)
      after == ApplyWrites(wb, writes, Min(done, Len(writes)))
      ok == done = Len(writes) + 1
  IN [book |-> after,
      saved |-> IF ok THEN after ELSE disk,
      ok |-> ok,
      printed |-> IF ok THEN "" ELSE "Error updating Excel"]

(* ------------------------------- report ------------------------------- *)
\* format(x, '.2f') of the fraction n/d: hundredths, rounded to nearest
\* (ties to even); "nan" for NaN
Fmt2(nan, n, d) ==
  IF nan THEN [text |-> "nan", cents |-> 0]
  ELSE LET q == (100 * n) \div d
           r == (100 * n) % d
           up == 2 * r > d \/ (2 * r = d /\ q % 2 = 1)
       IN [text |-> "", cents |-> IF up THEN q + 1 ELSE q]

NoReport == [written |-> FALSE, stamp |-> 0, top5 |-> NoTable,
             avg |-> Fmt2(TRUE, 0, 1), hiName |-> "", hiChg |-> Fmt2(TRUE, 0, 1),
             loName |-> "", loChg |-> Fmt2(TRUE, 0, 1)]

\* the markdown text generate_report renders
RenderReport(analysis, t) ==
  LET hi == analysis.highest_24h_change
      lo == analysis.lowest_24h_change
      nm(v) == v.rows[1].vals[ColIndex(v, "Name")].s
      ch(v) == v.rows[1].vals[ColIndex(v, "24h Change %")]
  IN [written |-> TRUE, stamp |-> t,
      top5 |-> analysis.top_5_by_market_cap,
      avg |-> Fmt2(analysis.average_price.nan, analysis.average_price.sum,
                   IF analysis.average_price.nan THEN 1
                   ELSE analysis.average_price.count),
      hiName |-> nm(hi), hiChg |-> Fmt2(IsNull(ch(hi)), ch(hi).n, 1),
      loName |-> nm(lo), loChg |-> Fmt2(IsNull(ch(lo)), ch(lo).n, 1)]

\* faults generate_report can meet: to_markdown without its optional
\* dependency, open(report_path, 'w') refused, f.write failing after the
\* file was truncated
ReportFaults == {"", "ImportError", "OSError at open", "OSError at write"}

\* generate_report has no try/except: a fault leaves by the caller
generate_report(file, analysis, t, fault) ==
  CASE fault = "ImportError" -> [exc |-> fault, file |-> file]
    [] Len(analysis.highest_24h_change.rows) = 0
         \/ Len(analysis.lowest_24h_change.rows) = 0 ->
         [exc |-> "IndexError", file |-> file]
    [] fault = "OSError at open" -> [exc |-> fault, file |-> file]
    [] fault = "OSError at write" ->
         [exc |-> fault, file |-> [NoReport EXCEPT !.written = TRUE]]
    [] OTHER -> [exc |-> "", file |-> RenderReport(analysis, t)]

(* ------------------------------- state -------------------------------- *)
VARIABLES
  pc,        \* position in main (or in the stand-alone use of the functions)
  data,      \* main's local `data`
  df,        \* main's local `df`
  analysis,  \* main's local `analysis`
  exc,       \* the exception that left main, and the call it came from
  now,       \* the clock, in seconds since the program started
  wbExists,  \* os.path.exists(wb_path)
  book,      \* the workbook as open in the spreadsheet application
  saved,     \* the workbook file on disk
  report,    \* the report file on disk
  stdout,    \* the last line printed
  h          \* history: what the current cycle called, and counts of calls

vars ==
  <<pc, data, df, analysis, exc, now, wbExists, book, saved, report, stdout,
    h>>

NoExc == [from |-> "", name |-> ""]

\* h.calls    functions main has called in the current cycle
\* h.fetches  calls of fetch_crypto_data so far
\* h.sleeps   calls of time.sleep so far
\* h.dataAt / h.dfAt / h.anAt   the cycle (number of its fetch) whose
\*            snapshot data / df / analysis were derived from
\* h.okRun    update_excel calls in a row that ended with wb.save()
\* h.tables   the tables of those calls, oldest first (at most two)
\* h.sinkFault  the last fault raised inside a sink write this cycle
NoHistory ==
  [calls |-> {},
   fetches |-> 0, sleeps |-> 0, dataAt |-> 0, dfAt |-> 0, anAt |-> 0,
   okRun |-> 0, tables |-> <<>>, sinkFault |-> ""]

Init ==
  /\ pc = "start"
  /\ data = None
  /\ df = NoTable
  /\ analysis = NoAnalysis
  /\ exc = NoExc
  /\ now = 0
  /\ wbExists \in BOOLEAN
  /\ book = EmptyBook
  /\ saved = EmptyBook
  /\ report = NoReport
  /\ stdout = ""
  /\ h = NoHistory

(* ------------------------------- main --------------------------------- *)
\* lines 102-111: create the workbook with its two sheets when it is absent
Start ==
  /\ pc = "start"
  /\ wbExists' = TRUE
  /\ pc' = "fetch"
  /\ UNCHANGED <<data, df, analysis, exc, now, book, saved, report, stdout, h>>

\* lines 114-117: print, then data = fetch_crypto_data()
Fetch ==
  /\ pc = "fetch"
  /\ \E net \in NetOutcomes, jsonErrIsRequestException \in BOOLEAN :
       LET r == fetch_crypto_data(net, jsonErrIsRequestException)
       IN /\ h' = [h EXCEPT !.calls = {"fetch_crypto_data"},
                            !.fetches = @ + 1,
                            !.dataAt = IF r.exc = "" THEN h.fetches + 1 ELSE @,
                            !.sinkFault = ""]
          /\ stdout' = IF r.printed = "" THEN "Fetching data" ELSE r.printed
          /\ IF r.exc = ""
             THEN /\ data' = r.value
                  /\ pc' = "check"
                  /\ exc' = exc
             ELSE /\ data' = data
                  /\ pc' = "crashed"
                  /\ exc' = [from |-> "fetch_crypto_data", name |-> r.exc]
  /\ UNCHANGED <<df, analysis, now, wbExists, book, saved, report>>

\* `time.sleep` moved inside `if data:` -- a failed fetch is retried at once
CheckRetry ==
  /\ pc = "check"
  /\ pc' = IF Truthy(data) THEN "process" ELSE "fetch"
  /\ UNCHANGED <<data, df, analysis, exc, now, wbExists, book, saved, report,
                 stdout, h>>

\* line 118: if data:
Check ==
  /\ pc = "check"
  /\ pc' = IF Truthy(data) THEN "process" ELSE "sleep"
  /\ UNCHANGED <<data, df, analysis, exc, now, wbExists, book, saved, report,
                 stdout, h>>

\* line 119: df = process_crypto_data(data)
Process ==
  /\ pc = "process"
  /\ LET r == process_crypto_data(data)
     IN /\ h' = [h EXCEPT !.calls = @ \cup {"process_crypto_data"},
                          !.dfAt = IF r.exc = "" THEN h.dataAt ELSE @]
        /\ IF r.exc = ""
           THEN /\ df' = r.value
                /\ pc' = "analyze"
                /\ exc' = exc
           ELSE /\ df' = df
                /\ pc' = "crashed"
                /\ exc' = [from |-> "process_crypto_data", name |-> r.exc]
  /\ UNCHANGED <<data, analysis, now, wbExists, book, saved, report, stdout>>

\* analysis computed on the first pass only and reused afterwards
AnalyzeOnce ==
  /\ pc = "analyze"
  /\ LET r == analyze_data(df)
         fresh == analysis = NoAnalysis
     IN /\ h' = [h EXCEPT !.calls = @ \cup {"analyze_data"},
                          !.anAt = IF r.exc = "" /\ fresh THEN h.dfAt ELSE @]
        /\ IF r.exc = ""
           THEN /\ analysis' = IF fresh THEN r.value ELSE analysis
                /\ pc' = "excel"
                /\ exc' = exc
           ELSE /\ analysis' = analysis
                /\ pc' = "crashed"
                /\ exc' = [from |-> "analyze_data", name |-> r.exc]
  /\ UNCHANGED <<data, df, now, wbExists, book, saved, report, stdout>>

\* line 120: analysis = analyze_data(df)
Analyze ==
  /\ pc = "analyze"
  /\ LET r == analyze_data(df)
     IN /\ h' = [h EXCEPT !.calls = @ \cup {"analyze_data"},
                          !.anAt = IF r.exc = "" THEN h.dfAt ELSE @]
        /\ IF r.exc = ""
           THEN /\ analysis' = r.value
                /\ pc' = "excel"
                /\ exc' = exc
           ELSE /\ analysis' = analysis
                /\ pc' = "crashed"
                /\ exc' = [from |-> "analyze_data", name |-> r.exc]
  /\ UNCHANGED <<data, df, now, wbExists, book, saved, report, stdout>>

\* line 123: update_excel(df, analysis, wb_path)
Excel ==
  /\ pc = "excel"
  /\ \E done \in ExcelOutcomes(df, analysis, now) :
       LET r == update_excel(book, saved, df, analysis, now, done)
       IN /\ book' = r.book
          /\ saved' = r.saved
          /\ stdout' = IF r.printed = "" THEN stdout ELSE r.printed
          /\ h' = [h EXCEPT !.calls = @ \cup {"update_excel"},
                            !.okRun = IF r.ok THEN Min(@ + 1, 2) ELSE 0,
                            !.tables = IF r.ok
                                       THEN (IF Len(@) = 2 THEN <<@[2], df>>
                                             ELSE Append(@, df))
                                       ELSE <<>>,
                            !.sinkFault = IF r.ok THEN @ ELSE "update_excel"]
  /\ pc' = "report"
  /\ UNCHANGED <<data, df, analysis, exc, now, wbExists, report>>

\* lines 124-126: generate_report(analysis, report_path), then the success
\* line is printed
Report ==
  /\ pc = "report"
  /\ \E fault \in ReportFaults :
       LET r == generate_report(report, analysis, now, fault)
       IN /\ report' = r.file
          /\ h' = [h EXCEPT !.calls = @ \cup {"generate_report"},
                            !.sinkFault = IF r.exc = "" THEN @ ELSE "generate_report"]
          /\ IF r.exc = ""
             THEN /\ pc' = "sleep"
                  /\ stdout' = "Data updated successfully"
                  /\ exc' = exc
             ELSE /\ pc' = "crashed"
                  /\ stdout' = stdout
                  /\ exc' = [from |-> "generate_report", name |-> r.exc]
  /\ UNCHANGED <<data, df, analysis, now, wbExists, book, saved>>

\* line 128: time.sleep(update_interval), then the next pass of `while True`
Sleep ==
  /\ pc = "sleep"
  /\ h.sleeps < MaxCycles - 1
  /\ now' = now + update_interval
  /\ h' = [h EXCEPT !.sleeps = @ + 1]
  /\ pc' = "fetch"
  /\ UNCHANGED <<data, df, analysis, exc, wbExists, book, saved, report, stdout>>

Next ==
  \/ Start
  \/ Fetch
  \/ Check
  \/ Process
  \/ Analyze
  \/ Excel
  \/ Report
  \/ Sleep

Spec == Init /\ [][Next]_vars

(* -------------------- the functions used on their own ------------------ *)
\* a table with the six columns and no rows, as a caller of analyze_data can
\* build it; its columns have the dtype the caller (or the pandas version)
\* gave them
EmptyTable(dtype) ==
  [columns |-> Labels, dtypes |-> [j \in 1..Len(Labels) |-> dtype], rows |-> <<>>]

PureInit ==
  /\ pc = "pure"
  /\ data \in {List(r) : r \in SeqsUpTo(PureRecords, MaxLen)}
  /\ df = NoTable
  /\ analysis = NoAnalysis
  /\ exc = NoExc
  /\ now = 0
  /\ wbExists = FALSE
  /\ book = EmptyBook
  /\ saved = EmptyBook
  /\ report = NoReport
  /\ stdout = ""
  /\ h = NoHistory

\* process_crypto_data(data)
PureProcess ==
  /\ pc = "pure"
  /\ LET r == process_crypto_data(data)
     IN /\ df' = r.value
        /\ pc' = IF r.exc = "" THEN "built" ELSE "raised"
        /\ exc' = IF r.exc = "" THEN exc
                  ELSE [from |-> "process_crypto_data", name |-> r.exc]
  /\ UNCHANGED <<data, analysis, now, wbExists, book, saved, report, stdout, h>>

\* the empty table handed to analyze_data directly
PureEmptyTable ==
  /\ pc = "pure"
  /\ data = List(<<>>)
  /\ \E dtype \in {"float64", "object"} : df' = EmptyTable(dtype)
  /\ pc' = "given"
  /\ UNCHANGED <<data, analysis, exc, now, wbExists, book, saved, report, stdout, h>>

\* analyze_data(df)
PureAnalyze ==
  /\ pc \in {"built", "given"}
  /\ LET r == analyze_data(df)
     IN /\ analysis' = r.value
        /\ pc' = IF r.exc = "" THEN "analyzed" ELSE "raised"
        /\ exc' = IF r.exc = "" THEN exc
                  ELSE [from |-> "analyze_data", name |-> r.exc]
  /\ UNCHANGED <<data, df, now, wbExists, book, saved, report, stdout, h>>

PureNext ==
  \/ PureProcess
  \/ PureEmptyTable
  \/ PureAnalyze

PureSpec == PureInit /\ [][PureNext]_vars

(* ============================== claims ================================= *)
SinksUnchanged == book' = book /\ saved' = saved /\ report' = report

\* C1: in a cycle whose fetch returned None, main goes from the `if` straight
\* to the pause without calling update_excel or generate_report and without
\* touching the open book, the workbook file or the report file; the pause
\* is followed by the next fetch.
C1_FailedFetchSkipsCycle ==
  [][ /\ (pc = "check" /\ data = None) =>
           /\ pc' = "sleep"
           /\ SinksUnchanged
           /\ h'.calls = {"fetch_crypto_data"}
           /\ exc' = NoExc
      /\ (pc = "sleep" /\ data = None) =>
           /\ pc' = "fetch"
           /\ SinksUnchanged ]_vars

\* a failed fetch after a cycle that published: the pause is reached with
\* both sinks as that cycle left them
C1_Witness ==
  /\ pc = "sleep"
  /\ data = None
  /\ h.fetches = 2
  /\ report.written
  /\ saved # EmptyBook
  /\ h.calls = {"fetch_crypto_data"}

\* C2: a fault raised in update_excel or in generate_report is caught inside
\* the cycle: after update_excel main calls generate_report, and after
\* generate_report main reaches the pause with no exception leaving main.
C2_SinkFaultsCaught ==
  [][ /\ pc = "excel" => (pc' = "report" /\ exc' = NoExc)
      /\ pc = "report" => (pc' = "sleep" /\ exc' = NoExc) ]_vars

\* the workbook a single update_excel call with these arguments produces from
\* empty sheets
FreshBook(t, a, time) ==
  ApplyWrites(EmptyBook, ExcelWrites(t, a, time), Len(ExcelWrites(t, a, time)))

\* C3: after two update_excel calls in a row that both ran to wb.save(), with
\* different tables T1 then T2, every cell of both sheets holds what writing
\* T2 alone produces: nothing written from T1 is left.
C3_OverwriteNotOverlay ==
  (pc = "report" /\ h.okRun = 2 /\ h.tables[1] # h.tables[2]) =>
     /\ h.tables[2] = df
     /\ book = FreshBook(df, analysis, now)
     /\ saved = book

\* C4: fetch_crypto_data lets no exception out, and what it returns is None
\* or a list of records.
C4_FetchNeverRaises ==
  /\ exc.from # "fetch_crypto_data"
  /\ pc = "check" => (data = None \/ data.t = "list")

(* IEEE comparison of two table values: false when either is null (NaN) *)
Ge(a, b) == ~IsNull(a) /\ ~IsNull(b) /\ a.n >= b.n

ChangeOf(row) == row.vals[6]

\* view is one row of t, its value is >= (highest) or <= (otherwise) the
\* value of every other row of t, and no earlier row of t has the same value
IsFirstExtreme(view, t, highest) ==
  /\ Len(view.rows) = 1
  /\ \E i \in 1..Len(t.rows) :
       /\ view.rows[1] = t.rows[i]
       /\ \A m \in 1..Len(t.rows) :
            m # i => IF highest
                     THEN Ge(ChangeOf(t.rows[i]), ChangeOf(t.rows[m]))
                     ELSE Ge(ChangeOf(t.rows[m]), ChangeOf(t.rows[i]))
       /\ \A m \in 1..(i - 1) : ChangeOf(t.rows[m]) # ChangeOf(t.rows[i])

AnalyzeCalled ==
  pc = "analyzed" \/ (pc = "raised" /\ exc.from = "analyze_data")

ExtremesAreFirstExtremes ==
  /\ pc = "analyzed"
  /\ IsFirstExtreme(analysis.highest_24h_change, df, TRUE)
  /\ IsFirstExtreme(analysis.lowest_24h_change, df, FALSE)

\* C5 as stated: for every table given to analyze_data, highest_24h_change
\* and lowest_24h_change are each exactly one row of the table, holding the
\* maximum (minimum) 24h change, the first such row in table order.
C5_AnyTable == AnalyzeCalled => ExtremesAreFirstExtremes

AllChangesNumeric(t) == \A i \in 1..Len(t.rows) : ChangeOf(t.rows[i]).k = "num"

\* C5 amended: for every table with at least one row and a number in every
\* 24h-change cell, analyze_data returns, and highest_24h_change and
\* lowest_24h_change are each exactly one row of the table, holding the
\* maximum (minimum) 24h change, the first such row in table order.
C5_NonEmptyNumericTable ==
  (AnalyzeCalled /\ Len(df.rows) > 0 /\ AllChangesNumeric(df)) =>
     ExtremesAreFirstExtremes

\* the maximum occurs twice, first at a row that is not the table's first
C5_Witness ==
  /\ pc = "analyzed"
  /\ AllChangesNumeric(df)
  /\ \E i, m \in 2..Len(df.rows) :
       /\ i < m
       /\ ChangeOf(df.rows[i]) = ChangeOf(df.rows[m])
       /\ \A q \in 1..Len(df.rows) : ChangeOf(df.rows[i]).n >= ChangeOf(df.rows[q]).n
       /\ ChangeOf(df.rows[1]).n < ChangeOf(df.rows[i]).n
       /\ analysis.highest_24h_change.rows = <<df.rows[i]>>

EveryRecordHasRequiredKeys(d) ==
  d.t = "list" /\ \A i \in 1..Len(d.v) : Range(RequiredKeys) \subseteq DOMAIN d.v[i]

ProcessCalled ==
  pc = "built" \/ (pc = "raised" /\ exc.from = "process_crypto_data")

\* C7: for every record sequence whose records all have the six keys,
\* process_crypto_data returns a table with the six labels in the fixed
\* order, one row per record in input order, each cell holding the value of
\* the corresponding key.
C7_SixColumnsAnySequence ==
  (ProcessCalled /\ EveryRecordHasRequiredKeys(data)) =>
     /\ pc = "built"
     /\ df.columns = <<"Name", "Symbol", "Price (USD)", "Market Cap",
                       "24h Volume", "24h Change %">>
     /\ Len(df.rows) = Len(data.v)
     /\ \A i \in 1..Len(df.rows) :
          /\ df.rows[i].idx = i - 1
          /\ df.rows[i].vals =
               <<data.v[i].name, data.v[i].symbol, data.v[i].current_price,
                 data.v[i].market_cap, data.v[i].total_volume,
                 data.v[i].price_change_percentage_24h>>

\* C8: whenever main is about to call update_excel or generate_report, the
\* table and the analysis it passes were both derived from the snapshot
\* fetched in the current cycle.
C8_SameSnapshot ==
  pc \in {"excel", "report"} =>
     /\ h.dataAt = h.fetches
     /\ h.dfAt = h.fetches
     /\ h.anAt = h.fetches
     /\ df = process_crypto_data(data).value
     /\ analysis = analyze_data(df).value

\* second cycle, after a first cycle that published another snapshot, with
\* update_excel having faulted part-way in this cycle
C8_Witness ==
  /\ pc = "report"
  /\ h.fetches = 2
  /\ report.written
  /\ report.top5 # analysis.top_5_by_market_cap
  /\ h.sinkFault = "update_excel"
  /\ book # saved

\* C9: a cycle holds exactly one fetch, whatever it returned; a fetch is only
\* ever started when every earlier fetch has been followed by exactly one
\* pause, and each pause lasts update_interval.
C9_OneFetchOnePause ==
  /\ pc \in {"start", "fetch"} => h.fetches = h.sleeps
  /\ pc \notin {"start", "fetch"} => h.fetches = h.sleeps + 1
  /\ now = h.sleeps * 300

\* a cycle that published was followed by one pause and one fetch, which
\* failed, and main is at the pause again
C9_Witness ==
  /\ pc = "sleep"
  /\ h.fetches = 2
  /\ h.sleeps = 1
  /\ ~Truthy(data)
  /\ report.written

\* C10: a fetch that returns an empty list is treated like a failed fetch:
\* main goes from the `if` to the pause, calls none of process_crypto_data,
\* analyze_data, update_excel, generate_report, and leaves the sinks alone;
\* and analyze_data is never called by main on a table without rows.
C10_EmptyListSkipsCycle ==
  [][ /\ (pc = "check" /\ data = List(<<>>)) =>
           /\ pc' = "sleep"
           /\ SinksUnchanged
           /\ h'.calls = {"fetch_crypto_data"}
           /\ exc' = NoExc
      /\ pc' = "analyze" => Len(df'.rows) > 0 ]_vars

\* an empty list fetched after a cycle that published
C10_Witness ==
  /\ pc = "sleep"
  /\ data = List(<<>>)
  /\ h.fetches = 2
  /\ report.written
  /\ saved # EmptyBook
  /\ h.calls = {"fetch_crypto_data"}

====
